---- MODULE Spec2Model ----
(***************************************************************************)
(* Model of solana-credit-score:                                           *)
(*   src/src/lib.rs       get_epoch_commissions, get_validator_status,     *)
(*                        get_validators_by_credit_score                   *)
(*   src/src/latitude.rs  Latitude::get_date_range                         *)
(*                                                                         *)
(* The RPC node is the environment: every awaited RPC call is one step,    *)
(* whose response is chosen from a small set.  u64 arithmetic keeps a      *)
(* width (WordBits bits instead of 64); an overflowing `-`, `*` or `+=`    *)
(* panics in a build with overflow checks ("debug") and wraps in one       *)
(* without ("release").                                                    *)
(***************************************************************************)
EXTENDS Integers, Sequences, FiniteSets, TLC

VARIABLES
    build,                \* "debug" (overflow checks) or "release" (wrapping)
    pc,                   \* position of the running call
    op,                   \* the public function that was called
    epoch_info,           \* argument epoch_info: &EpochInfo
    epoch,                \* argument epoch: Epoch (the target epoch)
    ignore_commission,    \* argument of get_validators_by_credit_score
    first_block_in_epoch, \* loop variable of get_epoch_commissions
    rpc_log,              \* every RPC request issued by the call, with its response
    epoch_commissions,    \* local of get_validators_by_credit_score (Option<BTreeMap>)
    vote_accounts,        \* the getVoteAccounts response the call received
    locals,               \* locals of get_validator_status that live across awaits
    result,               \* what the call returned (or that it panicked)
    start_day,            \* argument of get_date_range
    reference_date,       \* argument of get_date_range
    date_range            \* what get_date_range returned

vars == <<build, pc, op, epoch_info, epoch, ignore_commission, first_block_in_epoch,
          rpc_log, epoch_commissions, vote_accounts, locals, result,
          start_day, reference_date, date_range>>

date_vars == <<start_day, reference_date, date_range>>

----------------------------------------------------------------------------
(* Bounds of the model *)

\* width of the model's u64 (the program's is 64)
WordBits == 10
\* skip-class responses one scan may receive
MaxSkips == 2
\* vote accounts in one getVoteAccounts response
MaxAccounts == 2

----------------------------------------------------------------------------
(* Integer arithmetic of the build *)

U64Modulus == 2 ^ WordBits
U64Max == U64Modulus - 1
U8Modulus == 2 ^ 8

Min(a, b) == IF a <= b THEN a ELSE b

\* u64::saturating_sub
saturating_sub(a, b) == IF a >= b THEN a - b ELSE 0

\* u64::saturating_add
saturating_add(a, b) == Min(a + b, U64Max)

\* a value, or the panic of an overflow check
Val(v) == [panic |-> FALSE, v |-> v]
Panic == [panic |-> TRUE, v |-> 0]

\* `a - b` on u64: panics with overflow checks, wraps without
SubU64(b, x, y) ==
    IF x >= y THEN Val(x - y)
    ELSE IF b = "debug" THEN Panic ELSE Val((x - y) % U64Modulus)

\* `a * b` on u64
MulU64(b, x, y) ==
    IF x * y <= U64Max THEN Val(x * y)
    ELSE IF b = "debug" THEN Panic ELSE Val((x * y) % U64Modulus)

\* `a + b` on u64
AddU64(b, x, y) ==
    IF x + y <= U64Max THEN Val(x + y)
    ELSE IF b = "debug" THEN Panic ELSE Val((x + y) % U64Modulus)

\* `a - b` on u8
SubU8(b, x, y) ==
    IF x >= y THEN Val(x - y)
    ELSE IF b = "debug" THEN Panic ELSE Val((x - y) % U8Modulus)

----------------------------------------------------------------------------
(* chrono, as Latitude::get_date_range uses it *)

IsLeapYear(y) == (y % 4 = 0 /\ y % 100 # 0) \/ y % 400 = 0

DaysInMonth(y, m) ==
    IF m = 2 THEN (IF IsLeapYear(y) THEN 29 ELSE 28)
    ELSE IF m \in {4, 6, 9, 11} THEN 30 ELSE 31

None == [some |-> FALSE]
Some(v) == [some |-> TRUE, v |-> v]

Date(y, m, d) == [year |-> y, month |-> m, day |-> d]

\* NaiveDate::from_ymd_opt: None when the day does not exist in the month
from_ymd_opt(y, m, d) ==
    IF m \in 1..12 /\ d >= 1 /\ d <= DaysInMonth(y, m) THEN Some(Date(y, m, d)) ELSE None

\* the date `months` after (before, when negative) `date`: the month is shifted
\* and the day is clamped to the last day of the month reached
ShiftMonths(date, months) ==
    LET idx == date.year * 12 + (date.month - 1) + months
        y == idx \div 12
        m == (idx % 12) + 1
    IN  Date(y, m, Min(date.day, DaysInMonth(y, m)))

\* a shift back that keeps the day number without clamping it
checked_sub_months_wrong(date, months) ==
    LET idx == date.year * 12 + (date.month - 1) - months
    IN  Some(Date(idx \div 12, (idx % 12) + 1, date.day))

\* DateTime::checked_sub_months(Months::new(n))
checked_sub_months(date, months) == Some(ShiftMonths(date, 0 - months))

\* a shift forward that wraps the month without carrying into the year
checked_add_months_wrong(date, months) ==
    Some(Date(date.year, ((date.month - 1 + months) % 12) + 1, date.day))

\* DateTime::checked_add_months(Months::new(n))
checked_add_months(date, months) == Some(ShiftMonths(date, months))

Digit == <<"0", "1", "2", "3", "4", "5", "6", "7", "8", "9">>

Fmt2(n) == Digit[(n \div 10) + 1] \o Digit[(n % 10) + 1]

Fmt4(n) == Fmt2(n \div 100) \o Fmt2(n % 100)

\* DateTime::format("%Y-%m-%dT00:00:00")
format(date) ==
    Fmt4(date.year) \o "-" \o Fmt2(date.month) \o "-" \o Fmt2(date.day) \o "T00:00:00"

\* Latitude::get_date_range: None, or Some(<<start, end>>)
get_date_range(sd, ref) ==
    LET month == ref.month
        year == ref.year
        day == ref.day
        candidate == from_ymd_opt(year, month, sd)
    IN  IF ~candidate.some THEN None
        ELSE LET utc_date == candidate.v
                 start == IF day < sd THEN checked_sub_months(utc_date, 1)
                                      ELSE Some(utc_date)
                 end == IF day < sd THEN Some(utc_date)
                                    ELSE checked_add_months(utc_date, 1)
             IN  IF ~start.some \/ ~end.some THEN None
                 ELSE Some(<<format(start.v), format(end.v)>>)

----------------------------------------------------------------------------
(* Public keys: str::parse::<Pubkey>() and Pubkey::default() *)

\* base58 of the all-zero key, Pubkey::default()
DefaultKeyStr == "11111111111111111111111111111111"

\* the keys the model's strings decode to
Base58 == (DefaultKeyStr :> 0) @@ ("VoteA" :> 1) @@ ("VoteB" :> 2) @@ ("VoteC" :> 3)

Ok(v) == [ok |-> TRUE, v |-> v]
Err == [ok |-> FALSE]

\* s.parse::<Pubkey>()
parse_pubkey(s) == IF s \in DOMAIN Base58 THEN Ok(Base58[s]) ELSE Err

\* Pubkey::default()
PubkeyDefault == Base58[DefaultKeyStr]

\* Result::unwrap_or_default
unwrap_or_default(r) == IF r.ok THEN r.v ELSE PubkeyDefault

----------------------------------------------------------------------------
(* EpochWindow: lib.rs 31-34, 163-169 *)

\* absolute_slot.saturating_sub(slot_index) - (epoch_info.epoch - epoch) * slots_in_epoch
first_slot_in_epoch_of(b, ei, e) ==
    LET lhs == saturating_sub(ei.absolute_slot, ei.slot_index)
        diff == SubU64(b, ei.epoch, e)
        prod == IF diff.panic THEN Panic ELSE MulU64(b, diff.v, ei.slots_in_epoch)
    IN  IF prod.panic THEN Panic ELSE SubU64(b, lhs, prod.v)

\* the window end without the clamp to absolute_slot
last_slot_unclamped(first, ei) == saturating_add(first, ei.slots_in_epoch)

\* first_slot_in_epoch.saturating_add(slots_in_epoch).min(absolute_slot)
last_slot_of(first, ei) == Min(saturating_add(first, ei.slots_in_epoch), ei.absolute_slot)

----------------------------------------------------------------------------
(* get_epoch_commissions: the block's rewards become the commission map *)

\* the match arm of the filter_map closure
is_voting_with_commission(reward) ==
    reward.reward_type = "Voting" /\ reward.commission.some

\* the key the closure gives a reward
reward_key(reward) == unwrap_or_default(parse_pubkey(reward.pubkey))

\* rewards.unwrap_or_default().into_iter().filter_map(..).collect::<BTreeMap>():
\* a later entry of a key replaces an earlier one
commission_map(rewards) ==
    LET rs == IF rewards.some THEN rewards.v ELSE <<>>
        hits == {i \in 1..Len(rs) : is_voting_with_commission(rs[i])}
        keys == {reward_key(rs[i]) : i \in hits}
        last(k) == CHOOSE i \in hits :
                      /\ reward_key(rs[i]) = k
                      /\ \A j \in hits : reward_key(rs[j]) = k => j <= i
    IN  [k \in keys |-> rs[last(k)].commission.v]

\* a match on the first skip code only
is_skip_class_one_code(code) == code = "SlotSkipped"

\* the matches! on the two skip codes
is_skip_class(code) == code \in {"SlotSkipped", "LongTermStorageSlotSkipped"}

----------------------------------------------------------------------------
(* get_validators_by_credit_score: credits and ordering *)

\* the product taken in u64 before the division
staker_credits_u64_product(b, epoch_credits, epoch_commission) ==
    LET rest == SubU8(b, 100, epoch_commission)
    IN  IF rest.panic THEN Panic
        ELSE Val(((epoch_credits * rest.v) % U64Modulus) \div 100)

\* (u128::from(epoch_credits) * u128::from(100 - epoch_commission) / 100) as u64
staker_credits_of(b, epoch_credits, epoch_commission) ==
    LET rest == SubU8(b, 100, epoch_commission)
    IN  IF rest.panic THEN Panic
        ELSE Val((((epoch_credits * rest.v) % (U64Modulus * U64Modulus)) \div 100)
                    % U64Modulus)

\* epoch_credits.iter().find(|ec| ec.0 == epoch)
find_epoch(epoch_credits, e) ==
    LET hits == {i \in 1..Len(epoch_credits) : epoch_credits[i][1] = e}
    IN  IF hits = {} THEN None
        ELSE Some(epoch_credits[CHOOSE i \in hits : \A j \in hits : i <= j])

\* the closure of lines 264-297 for one account whose vote_pubkey parsed:
\* the entry, or the panic of `.unwrap()` / `100 - epoch_commission`
ranked_entry(b, vai, vote_pubkey, e, ic, commissions) ==
    LET ec == find_epoch(vai.epoch_credits, e)
    IN  IF ~ec.some THEN Val(<<0, vote_pubkey, vai.activated_stake>>)
        ELSE LET missing == /\ ~ic
                            /\ commissions.some
                            /\ vote_pubkey \notin DOMAIN commissions.v
                 epoch_commission ==
                     IF ic THEN 0
                     ELSE IF commissions.some THEN commissions.v[vote_pubkey]
                     ELSE vai.commission
                 epoch_credits == saturating_sub(ec.v[2], ec.v[3])
                 sc == staker_credits_of(b, epoch_credits, epoch_commission)
             IN  IF missing THEN Panic
                 ELSE IF sc.panic THEN Panic
                 ELSE Val(<<sc.v, vote_pubkey, vai.activated_stake>>)

RECURSIVE ranked_list(_, _, _, _, _)
\* current.into_iter().chain(delinquent).filter_map(..).collect::<Vec<_>>()
ranked_list(b, accounts, e, ic, commissions) ==
    IF accounts = <<>> THEN Val(<<>>)
    ELSE LET vai == Head(accounts)
             parsed == parse_pubkey(vai.vote_pubkey)
             head == IF parsed.ok
                     THEN ranked_entry(b, vai, parsed.v, e, ic, commissions)
                     ELSE Val(<<>>)
             tail == ranked_list(b, Tail(accounts), e, ic, commissions)
         IN  IF head.panic THEN Panic
             ELSE IF tail.panic THEN Panic
             ELSE IF parsed.ok THEN Val(<<head.v>> \o tail.v)
             ELSE tail

\* u64::cmp
cmp(x, y) == IF x < y THEN "Less" ELSE IF x = y THEN "Equal" ELSE "Greater"

\* the comparator with its operands in the other order
by_credits_ascending(a, b) == cmp(a[1], b[1])

\* the comparator |a, b| b.0.cmp(&a.0)
by_credits(a, b) == cmp(b[1], a[1])

\* one insertion of a stable sort: x goes behind every element that does not
\* compare Greater than it
sort_insert(sorted, x) ==
    LET after == {i \in 1..Len(sorted) : by_credits(sorted[i], x) = "Greater"}
        at == IF after = {} THEN Len(sorted) + 1
              ELSE CHOOSE i \in after : \A j \in after : i <= j
    IN  SubSeq(sorted, 1, at - 1) \o <<x>> \o SubSeq(sorted, at, Len(sorted))

RECURSIVE sort_by(_)
\* list.sort_by(|a, b| b.0.cmp(&a.0)): slice::sort_by is stable
sort_by(list) ==
    IF list = <<>> THEN <<>>
    ELSE sort_insert(sort_by(SubSeq(list, 1, Len(list) - 1)), list[Len(list)])


----------------------------------------------------------------------------
(* get_validator_status: skip rate as f64 *)

F64(n, d) == [kind |-> "finite", num |-> n, den |-> d]
NaN == [kind |-> "NaN", num |-> 0, den |-> 0]
Infinity == [kind |-> "inf", num |-> 1, den |-> 0]

\* n as f64 / d as f64 for integers n, d >= 0: 0/0 is NaN, n/0 is +inf, and a
\* finite quotient is kept as the fraction it rounds (rounding keeps its order
\* against 0 and 100, which are floats)
f64_div(n, d) ==
    IF d = 0 THEN (IF n = 0 THEN NaN ELSE Infinity) ELSE F64(n, d)

\* the closure of .map() at lines 185-191
production_of(leader_slots, blocks_produced) ==
    <<leader_slots, blocks_produced,
      f64_div(100 * saturating_sub(leader_slots, blocks_produced), leader_slots)>>

\* by_identity.into_iter().find(|(leader, _)| leader == identity).map(..).unwrap_or_default()
block_production_of(by_identity, identity) ==
    IF identity \in DOMAIN by_identity
    THEN production_of(by_identity[identity][1], by_identity[identity][2])
    ELSE <<0, 0, F64(0, 1)>>

\* lines 204-208
leader_slots_count_of(leader_schedule, identity) ==
    IF leader_schedule.some
    THEN (IF identity \in DOMAIN leader_schedule.v
          THEN Len(leader_schedule.v[identity]) ELSE 0)
    ELSE 0

LAMPORTS_PER_SOL == 1000000000

----------------------------------------------------------------------------
(* What the node may answer *)

Epochs == 0..2
AbsoluteSlots == 0..3
SlotsInEpochs == {2, 3}

\* EpochInfo with slot_index < slots_in_epoch; the slots of the epochs before
\* the current one may be fewer than slots_in_epoch each (warm-up epochs)
EpochInfos ==
    {ei \in [epoch : Epochs, absolute_slot : AbsoluteSlots,
             slot_index : 0..2, slots_in_epoch : SlotsInEpochs] :
        ei.slot_index < ei.slots_in_epoch}

\* the epochs of the EpochInfos and one after them
TargetEpochs == 0..3

NoEpochInfo == [epoch |-> 0, absolute_slot |-> 0, slot_index |-> 0, slots_in_epoch |-> 0]

Account(vp, np, stake, c, credits, lv, rs) ==
    [vote_pubkey |-> vp, node_pubkey |-> np, activated_stake |-> stake,
     commission |-> c, epoch_credits |-> credits, last_vote |-> lv, root_slot |-> rs]

CreditsHigh == <<<<0, 7, 0>>, <<1, U64Max, 0>>, <<2, U64Max, 3>>>>
CreditsLow == <<<<0, 3, 7>>, <<2, 7, 0>>>>

\* RpcVoteAccountInfo values: distinct vote accounts, one with a vote_pubkey
\* that is no base58 key.  commission is the percentage 0..=100 the RPC reports;
\* epoch credits reach the largest word
AccountPool ==
    { Account("VoteA", "NodeA", 40, 0, CreditsHigh, 9, 7),
      Account("VoteB", "NodeB", 30, 100, CreditsHigh, 8, 8),
      Account("VoteC", "NodeC", 20, 33, CreditsLow, 3, 5),
      Account("not-a-pubkey", "NodeD", 10, 0, CreditsHigh, 6, 5) }

\* sequences of distinct accounts of at most n entries
RECURSIVE AccountSeqs(_, _)
AccountSeqs(pool, n) ==
    IF n = 0 THEN {<<>>}
    ELSE {<<>>} \cup {<<a>> \o rest : a \in pool, rest \in AccountSeqs(pool, n - 1)}

Distinct(seq) == \A i, j \in 1..Len(seq) : i # j => seq[i] # seq[j]

\* getVoteAccounts without a filter: current and delinquent are disjoint
VoteAccountSnapshots ==
    UNION {{[current |-> SubSeq(all, 1, k), delinquent |-> SubSeq(all, k + 1, Len(all))] :
                k \in 0..Len(all)} :
            all \in {x \in AccountSeqs(AccountPool, MaxAccounts) : Distinct(x)}}

\* getVoteAccounts filtered by one vote_pubkey: at most the one account
FilteredVoteAccounts ==
    {[current |-> <<>>, delinquent |-> <<>>]}
    \cup {[current |-> <<a>>, delinquent |-> <<>>] : a \in AccountPool}
    \cup {[current |-> <<>>, delinquent |-> <<a>>] : a \in AccountPool}

Reward(pk, rt, c) == [pubkey |-> pk, reward_type |-> rt, commission |-> c]

\* Option<Vec<Reward>> of a block fetched rewards-only: no rewards, a commission
\* for every vote account, and a block with an unparsable pubkey, other reward
\* types, a missing commission and a repeated key
BlockRewards ==
    { None,
      Some(<<Reward("VoteA", "Voting", Some(0)), Reward("VoteB", "Voting", Some(100)),
             Reward("VoteC", "Voting", Some(10))>>),
      Some(<<Reward("not-a-pubkey", "Voting", Some(5)), Reward("VoteA", "Staking", Some(7)),
             Reward("VoteB", "Voting", None), Reward("VoteA", "Voting", Some(50)),
             Reward("VoteA", "Voting", Some(20))>>) }

SkipCodes == {"SlotSkipped", "LongTermStorageSlotSkipped"}
OtherCodes == {"BlockNotAvailable"}

\* by_identity of getBlockProduction: identity -> (leader_slots, blocks_produced)
ByIdentities(identity) ==
    { <<>>, ("NodeX" :> <<1, 1>>) }
    \cup {(identity :> p) : p \in {<<0, 0>>, <<4, 1>>, <<4, 4>>, <<2, 3>>}}

\* getLeaderSchedule: Option<identity -> slots>
LeaderSchedules(identity) ==
    { None, Some(<<>>), Some(identity :> <<0, 1, 2>>) }

----------------------------------------------------------------------------
(* State *)

NoLocals ==
    [is_delinquent |-> FALSE, account |-> None, vote_distance |-> 0,
     delegated_stake |-> 0, credits |-> 0, identity |-> "",
     first_slot_in_epoch |-> 0, last_slot |-> 0,
     leader_slots_elapsed |-> 0, blocks_produced |-> 0, skip_rate |-> F64(0, 1)]

NoResult == [tag |-> "none"]
Panicked == [tag |-> "panic"]

\* a request to the node; slot is getBlock's slot, getBlockProduction's first_slot
\* or getLeaderSchedule's slot
Request(method, slot, last) ==
    [method |-> method, slot |-> slot, last_slot |-> last,
     response |-> "pending", rewards |-> None]

\* the log with the pending request answered
Answered(log, response, rewards) ==
    [log EXCEPT ![Len(log)] = [@ EXCEPT !.response = response, !.rewards = rewards]]

Skips(log) == Cardinality({i \in 1..Len(log) : log[i].response \in SkipCodes})

Init ==
    /\ build \in {"debug", "release"}
    /\ pc = "idle"
    /\ op = "none"
    /\ epoch_info = NoEpochInfo
    /\ epoch = 0
    /\ ignore_commission = FALSE
    /\ first_block_in_epoch = 0
    /\ rpc_log = <<>>
    /\ epoch_commissions = None
    /\ vote_accounts = None
    /\ locals = NoLocals
    /\ result = NoResult
    /\ start_day = 0
    /\ reference_date = [year |-> 0, month |-> 0, day |-> 0, hour |-> 0]
    /\ date_range = None

\* One call is followed from its arguments to its return: no state outlives a
\* call, so a later call starts from the same state as the first
CanCall == pc = "idle"

\* return from the public function
Return(r) ==
    /\ result' = r
    /\ pc' = IF r.tag = "panic" THEN "panicked" ELSE "done"


----------------------------------------------------------------------------
(* get_epoch_commissions *)

\* lines 27-40: the future-epoch check, the first slot, the first request
enter_get_epoch_commissions(ei, e) ==
    IF e > ei.epoch
    THEN /\ Return([tag |-> "Err", kind |-> "FutureEpoch", epoch |-> e])
         /\ first_block_in_epoch' = 0
         /\ rpc_log' = <<>>
    ELSE LET first == first_slot_in_epoch_of(build, ei, e)
         IN  IF first.panic
             THEN /\ Return(Panicked)
                  /\ first_block_in_epoch' = 0
                  /\ rpc_log' = <<>>
             ELSE /\ first_block_in_epoch' = first.v
                  /\ rpc_log' = <<Request("getBlock", first.v, 0)>>
                  /\ pc' = "scan"
                  /\ result' = NoResult

\* lines 43-58: the block arrived; back in get_validators_by_credit_score the map
\* is kept and getVoteAccounts is requested (lines 248-257)
get_block_ok(rewards) ==
    /\ pc = "scan"
    /\ epoch_commissions' = Some(commission_map(rewards))
    /\ rpc_log' = Answered(rpc_log, "Ok", rewards) \o <<Request("getVoteAccounts", 0, 0)>>
    /\ pc' = "rank_vote_accounts"
    /\ UNCHANGED <<build, op, epoch_info, epoch, ignore_commission, first_block_in_epoch,
                   vote_accounts, locals, result, date_vars>>

\* lines 59-77: a skip-class error moves to the next slot, any other error fails.
\* The node reports a slot as skipped only below the end of the slot range, and
\* at most MaxSkips times in one scan.
get_block_err(code) ==
    /\ pc = "scan"
    /\ code \in SkipCodes =>
          Skips(rpc_log) < MaxSkips /\ first_block_in_epoch < U64Max
    /\ IF is_skip_class(code)
       THEN LET next == AddU64(build, first_block_in_epoch, 1)
            IN  IF next.panic
                THEN /\ Return(Panicked)
                     /\ rpc_log' = Answered(rpc_log, code, None)
                     /\ UNCHANGED first_block_in_epoch
                ELSE /\ first_block_in_epoch' = next.v
                     /\ rpc_log' = Answered(rpc_log, code, None)
                                      \o <<Request("getBlock", next.v, 0)>>
                     /\ UNCHANGED <<pc, result>>
       ELSE /\ Return([tag |-> "Err", kind |-> "BlockFetch",
                       slot |-> first_block_in_epoch, cause |-> code])
            /\ rpc_log' = Answered(rpc_log, code, None)
            /\ UNCHANGED first_block_in_epoch
    /\ UNCHANGED <<build, op, epoch_info, epoch, ignore_commission, epoch_commissions,
                   vote_accounts, locals, date_vars>>

----------------------------------------------------------------------------
(* get_validators_by_credit_score *)

\* lines 245-257
get_validators_by_credit_score(ei, e, ic) ==
    /\ CanCall
    /\ op' = "get_validators_by_credit_score"
    /\ epoch_info' = ei
    /\ epoch' = e
    /\ ignore_commission' = ic
    /\ epoch_commissions' = None
    /\ vote_accounts' = None
    /\ locals' = NoLocals
    /\ IF e = ei.epoch
       THEN /\ first_block_in_epoch' = 0
            /\ rpc_log' = <<Request("getVoteAccounts", 0, 0)>>
            /\ pc' = "rank_vote_accounts"
            /\ result' = NoResult
       ELSE enter_get_epoch_commissions(ei, e)
    /\ UNCHANGED <<build, date_vars>>

\* lines 259-302: the list is built, sorted and returned
rank_vote_accounts_ok(snapshot) ==
    /\ pc = "rank_vote_accounts"
    /\ vote_accounts' = Some(snapshot)
    /\ rpc_log' = Answered(rpc_log, "Ok", None)
    /\ LET list == ranked_list(build, snapshot.current \o snapshot.delinquent,
                               epoch, ignore_commission, epoch_commissions)
       IN  Return(IF list.panic THEN Panicked
                  ELSE [tag |-> "Ok", value |-> sort_by(list.v)])
    /\ UNCHANGED <<build, op, epoch_info, epoch, ignore_commission, first_block_in_epoch,
                   epoch_commissions, locals, date_vars>>

\* `.await?` of getVoteAccounts, getBlockProduction, getLeaderSchedule: the
\* error of the request is returned
rpc_failed ==
    /\ pc \in {"rank_vote_accounts", "status_vote_accounts",
               "status_block_production", "status_leader_schedule"}
    /\ rpc_log' = Answered(rpc_log, "RpcError", None)
    /\ Return([tag |-> "Err", kind |-> "Rpc", method |-> rpc_log[Len(rpc_log)].method])
    /\ UNCHANGED <<build, op, epoch_info, epoch, ignore_commission, first_block_in_epoch,
                   epoch_commissions, vote_accounts, locals, date_vars>>

----------------------------------------------------------------------------
(* get_validator_status *)

\* lines 130-137
get_validator_status(ei, e) ==
    /\ CanCall
    /\ op' = "get_validator_status"
    /\ epoch_info' = ei
    /\ epoch' = e
    /\ ignore_commission' = FALSE
    /\ epoch_commissions' = None
    /\ vote_accounts' = None
    /\ locals' = NoLocals
    /\ first_block_in_epoch' = 0
    /\ rpc_log' = <<Request("getVoteAccounts", 0, 0)>>
    /\ pc' = "status_vote_accounts"
    /\ result' = NoResult
    /\ UNCHANGED <<build, date_vars>>

\* account.epoch_credits.iter().find(..).map(saturating_sub).unwrap_or_default()
credits_of(account, e) ==
    LET ec == find_epoch(account.epoch_credits, e)
    IN  IF ec.some THEN saturating_sub(ec.v[2], ec.v[3]) ELSE 0

\* lines 139-180: the account is chosen, the window computed, getBlockProduction
\* requested
status_vote_accounts_ok(response) ==
    /\ pc = "status_vote_accounts"
    /\ vote_accounts' = Some(response)
    /\ LET is_delinquent == response.current = <<>>
           chosen == IF is_delinquent THEN response.delinquent ELSE response.current
       IN  IF chosen = <<>>
           THEN /\ Return([tag |-> "Ok", value |-> None])
                /\ rpc_log' = Answered(rpc_log, "Ok", None)
                /\ UNCHANGED locals
           ELSE LET account == chosen[1]
                    vote_distance == SubU64(build, account.last_vote, account.root_slot)
                    first == first_slot_in_epoch_of(build, epoch_info, epoch)
                IN  IF vote_distance.panic \/ first.panic
                    THEN /\ Return(Panicked)
                         /\ rpc_log' = Answered(rpc_log, "Ok", None)
                         /\ UNCHANGED locals
                    ELSE /\ locals' =
                              [locals EXCEPT
                                 !.is_delinquent = is_delinquent,
                                 !.account = Some(account),
                                 !.vote_distance = vote_distance.v,
                                 !.delegated_stake =
                                     account.activated_stake \div LAMPORTS_PER_SOL,
                                 !.credits = credits_of(account, epoch),
                                 !.identity = account.node_pubkey,
                                 !.first_slot_in_epoch = first.v,
                                 !.last_slot = last_slot_of(first.v, epoch_info)]
                         /\ rpc_log' = Answered(rpc_log, "Ok", None)
                              \o <<Request("getBlockProduction", first.v,
                                           last_slot_of(first.v, epoch_info))>>
                         /\ pc' = "status_block_production"
                         /\ UNCHANGED result
    /\ UNCHANGED <<build, op, epoch_info, epoch, ignore_commission, first_block_in_epoch,
                   epoch_commissions, date_vars>>

\* lines 181-202: the production entry of the identity, then getLeaderSchedule
status_block_production_ok(by_identity) ==
    /\ pc = "status_block_production"
    /\ LET p == block_production_of(by_identity, locals.identity)
       IN  locals' = [locals EXCEPT !.leader_slots_elapsed = p[1],
                                    !.blocks_produced = p[2],
                                    !.skip_rate = p[3]]
    /\ rpc_log' = Answered(rpc_log, "Ok", None)
                     \o <<Request("getLeaderSchedule", locals.first_slot_in_epoch, 0)>>
    /\ pc' = "status_leader_schedule"
    /\ UNCHANGED <<build, op, epoch_info, epoch, ignore_commission, first_block_in_epoch,
                   epoch_commissions, vote_accounts, result, date_vars>>

\* lines 210-214
epoch_progress_of(b, ei, e) ==
    IF ei.epoch > e THEN Val(100)
    ELSE LET scaled == MulU64(b, ei.slot_index, 100)
         IN  IF scaled.panic \/ ei.slots_in_epoch = 0 THEN Panic
             ELSE Val(scaled.v \div ei.slots_in_epoch)

\* lines 204-227
status_leader_schedule_ok(leader_schedule) ==
    /\ pc = "status_leader_schedule"
    /\ rpc_log' = Answered(rpc_log, "Ok", None)
    /\ LET epoch_progress == epoch_progress_of(build, epoch_info, epoch)
       IN  IF epoch_progress.panic THEN Return(Panicked)
           ELSE Return([tag |-> "Ok", value |-> Some(
                   [epoch |-> epoch,
                    epoch_progress |-> epoch_progress.v,
                    credits |-> locals.credits,
                    vote_distance |-> locals.vote_distance,
                    delegated_stake |-> locals.delegated_stake,
                    leader_slots_count |->
                        leader_slots_count_of(leader_schedule, locals.identity),
                    leader_slots_elapsed |-> locals.leader_slots_elapsed,
                    blocks_produced |-> locals.blocks_produced,
                    skip_rate |-> locals.skip_rate,
                    is_delinquent |-> locals.is_delinquent])])
    /\ UNCHANGED <<build, op, epoch_info, epoch, ignore_commission, first_block_in_epoch,
                   epoch_commissions, vote_accounts, locals, date_vars>>

----------------------------------------------------------------------------
(* Latitude::get_date_range *)

Years == {2023, 2024}

\* reference date-times: every day of a common and of a leap year
ReferenceDates ==
    {r \in [year : Years, month : 1..12, day : 1..31, hour : {0, 23}] :
        r.day <= DaysInMonth(r.year, r.month)}

\* start_day: u32, with 0 and 32 as the days no month has
StartDays == 0..32

\* the call with the arguments the state holds
call_get_date_range ==
    /\ CanCall
    /\ op' = "get_date_range"
    /\ pc' = "done"
    /\ date_range' = get_date_range(start_day, reference_date)
    /\ UNCHANGED <<build, epoch_info, epoch, ignore_commission, first_block_in_epoch,
                   rpc_log, epoch_commissions, vote_accounts, locals, result,
                   start_day, reference_date>>

----------------------------------------------------------------------------
(* Specifications *)

Next ==
    \/ \E ei \in EpochInfos, e \in TargetEpochs, ic \in BOOLEAN :
          get_validators_by_credit_score(ei, e, ic)
    \/ \E rewards \in BlockRewards : get_block_ok(rewards)
    \/ \E code \in SkipCodes \cup OtherCodes : get_block_err(code)
    \/ \E snapshot \in VoteAccountSnapshots : rank_vote_accounts_ok(snapshot)
    \/ rpc_failed
    \/ \E ei \in EpochInfos, e \in TargetEpochs : get_validator_status(ei, e)
    \/ \E response \in FilteredVoteAccounts : status_vote_accounts_ok(response)
    \/ \E by_identity \in ByIdentities(locals.identity) :
          status_block_production_ok(by_identity)
    \/ \E leader_schedule \in LeaderSchedules(locals.identity) :
          status_leader_schedule_ok(leader_schedule)

\* the RPC functions of lib.rs
Spec == Init /\ [][Next]_vars

\* the arguments of a get_date_range call are drawn at the start
DateInit ==
    /\ build = "release"
    /\ pc = "idle"
    /\ op = "none"
    /\ epoch_info = NoEpochInfo
    /\ epoch = 0
    /\ ignore_commission = FALSE
    /\ first_block_in_epoch = 0
    /\ rpc_log = <<>>
    /\ epoch_commissions = None
    /\ vote_accounts = None
    /\ locals = NoLocals
    /\ result = NoResult
    /\ start_day \in StartDays
    /\ reference_date \in ReferenceDates
    /\ date_range = None

DateNext == call_get_date_range

\* Latitude::get_date_range alone
DateSpec == DateInit /\ [][DateNext]_vars

----------------------------------------------------------------------------
(* Claims about Latitude::get_date_range (DateSpec) *)

DateCallDone == op = "get_date_range" /\ pc = "done"

NextMonth(y, m) == IF m = 12 THEN Date(y + 1, 1, 1) ELSE Date(y, m + 1, 1)
PrevMonth(y, m) == IF m = 1 THEN Date(y - 1, 12, 1) ELSE Date(y, m - 1, 1)

\* C3: when reference.day >= start_day and start_day is a day of the
\* reference's month and of the month after it, get_date_range returns start =
\* (year, month, start_day) and end = (year, month + 1, start_day), January of
\* year + 1 after a December reference, both formatted at 00:00:00.
C3_StartThisMonthEndNextMonth ==
    LET y == reference_date.year
        m == reference_date.month
        n == NextMonth(y, m)
    IN  (/\ DateCallDone
         /\ reference_date.day >= start_day
         /\ start_day >= 1
         /\ start_day <= DaysInMonth(y, m)
         /\ start_day <= DaysInMonth(n.year, n.month))
        => date_range = Some(<<format(Date(y, m, start_day)),
                               format(Date(n.year, n.month, start_day))>>)

\* C3 witness: the December reference of test_date_range
C3_Witness ==
    /\ DateCallDone
    /\ start_day = 5
    /\ reference_date = [year |-> 2024, month |-> 12, day |-> 12, hour |-> 0]
    /\ date_range = Some(<<"2024-12-05T00:00:00", "2025-01-05T00:00:00">>)

\* C4 as claimed: when reference.day < start_day and a result is returned, start
\* is the day numbered start_day of the month before the reference's month and
\* end is the day numbered start_day of the reference's month.
C4_StartIsStartDayOfPreviousMonth ==
    LET y == reference_date.year
        m == reference_date.month
        p == PrevMonth(y, m)
    IN  (DateCallDone /\ reference_date.day < start_day /\ date_range.some)
        => date_range.v = <<format(Date(p.year, p.month, start_day)),
                            format(Date(y, m, start_day))>>

\* C4 amended: when reference.day < start_day and a result is returned, start
\* is in the month before the reference's month (December of year - 1 before
\* January) on the day numbered start_day, or on that month's last day when it
\* is shorter than start_day; end is the day numbered start_day of the
\* reference's month; both at 00:00:00.
C4_StartClampedToPreviousMonth ==
    LET y == reference_date.year
        m == reference_date.month
        p == PrevMonth(y, m)
        last == DaysInMonth(p.year, p.month)
    IN  (DateCallDone /\ reference_date.day < start_day /\ date_range.some)
        => date_range.v =
              <<format(Date(p.year, p.month, IF start_day <= last THEN start_day ELSE last)),
                format(Date(y, m, start_day))>>

\* C4 witness: start_day 31 in March of a leap year starts on 29 February
C4_Witness ==
    /\ DateCallDone
    /\ start_day = 31
    /\ reference_date = [year |-> 2024, month |-> 3, day |-> 12, hour |-> 23]
    /\ date_range = Some(<<"2024-02-29T00:00:00", "2024-03-31T00:00:00">>)


----------------------------------------------------------------------------
(* Claims about get_validators_by_credit_score and get_epoch_commissions (Spec) *)

RankCall == op = "get_validators_by_credit_score"

\* the ranking returned a list
RankReturned == RankCall /\ pc = "done" /\ result.tag = "Ok"

\* the input sequence: current followed by delinquent
RankInput == vote_accounts.v.current \o vote_accounts.v.delinquent

\* positions of the input whose vote_pubkey is a key
Parsable(inp) == {n \in 1..Len(inp) : inp[n].vote_pubkey \in DOMAIN Base58}

\* the input position of the account with key k
InputIndex(inp, k) == CHOOSE n \in Parsable(inp) : Base58[inp[n].vote_pubkey] = k

\* C1: the returned list is ordered descending by staker_credits, and entries
\* with equal staker_credits keep the relative order they had in the input
\* sequence current followed by delinquent.
C1_SortedDescendingStable ==
    RankReturned =>
        LET out == result.value
            inp == RankInput
        IN  /\ \A i \in 1..(Len(out) - 1) : out[i][1] >= out[i + 1][1]
            /\ \A i, j \in 1..Len(out) :
                  (i < j /\ out[i][1] = out[j][1])
                  => InputIndex(inp, out[i][2]) < InputIndex(inp, out[j][2])

\* C1 witness: a list whose first entry came after the second in the input, and
\* a list with a tie between a current and a delinquent account
C1_Witness ==
    /\ RankReturned
    /\ Len(result.value) = 2
    /\ \/ /\ result.value[1][1] > result.value[2][1]
          /\ InputIndex(RankInput, result.value[1][2])
                > InputIndex(RankInput, result.value[2][2])
       \/ /\ result.value[1][1] = result.value[2][1]
          /\ result.value[1][1] > 0
          /\ Len(vote_accounts.v.current) = 1

\* cumulative - previous, saturating, of the first entry for epoch e; none: -1
EpochCreditsOf(account, e) ==
    LET hits == {i \in 1..Len(account.epoch_credits) : account.epoch_credits[i][1] = e}
        first == CHOOSE i \in hits : \A j \in hits : i <= j
        cumulative == account.epoch_credits[first][2]
        previous == account.epoch_credits[first][3]
    IN  IF hits = {} THEN 0 - 1
        ELSE IF cumulative >= previous THEN cumulative - previous ELSE 0

\* the commission that applies to an account
ApplicableCommission(account) ==
    IF ignore_commission THEN 0
    ELSE IF epoch = epoch_info.epoch THEN account.commission
    ELSE epoch_commissions.v[Base58[account.vote_pubkey]]

\* C2: every account of current and delinquent with a parsable vote identity
\* appears exactly once in the output with its activated stake; its
\* staker_credits is 0 without an epoch_credits entry for the target epoch and
\* floor(E * (100 - c) / 100) otherwise, which is E for c = 0 and 0 for c = 100,
\* exactly, for every E of the word width.
C2_EveryAccountRankedWithExactCredits ==
    RankReturned =>
        LET out == result.value
            inp == RankInput
        IN  /\ Len(out) = Cardinality(Parsable(inp))
            /\ \A n \in Parsable(inp) :
                  LET E == EpochCreditsOf(inp[n], epoch)
                      c == ApplicableCommission(inp[n])
                      credits == IF E < 0 THEN 0 ELSE (E * (100 - c)) \div 100
                      at == {i \in 1..Len(out) : out[i][2] = Base58[inp[n].vote_pubkey]}
                  IN  /\ Cardinality(at) = 1
                      /\ \A i \in at :
                            /\ out[i][3] = inp[n].activated_stake
                            /\ out[i][1] = credits
                            /\ (E >= 0 /\ c = 0) => out[i][1] = E
                            /\ (E >= 0 /\ c = 100) => out[i][1] = 0

\* C2 witness: the largest E with commission 0 beside an account without an
\* entry for the epoch, in a historical epoch
C2_Witness ==
    /\ RankReturned
    /\ epoch < epoch_info.epoch
    /\ ~ignore_commission
    /\ \E i, j \in 1..Len(result.value) :
          /\ result.value[i][1] = U64Max
          /\ EpochCreditsOf(RankInput[InputIndex(RankInput, result.value[j][2])], epoch) < 0

\* the getBlock requests of the call, in order
BlockRequests == SelectSeq(rpc_log, LAMBDA r : r.method = "getBlock")

\* C5: the scan requests consecutive slots from the first slot, one request per
\* slot and one increment per skip-class error, and stops at the first response
\* that is not skip-class: a block gives that block's commission map, any other
\* error fails reporting that slot, and no request follows either.
C5_ScanStopsAtFirstNonSkip ==
    LET rq == BlockRequests
        n == Len(rq)
    IN  (RankCall /\ n > 0) =>
           /\ \A i \in 1..n : rq[i].slot = rq[1].slot + (i - 1)
           /\ \A i \in 1..n : (i < n) <=> (rq[i].response \in SkipCodes)
           /\ first_block_in_epoch = rq[1].slot + Skips(rq)
           /\ rq[n].response = "pending" <=> pc = "scan"
           /\ rq[n].response = "Ok" =>
                 /\ epoch_commissions = Some(commission_map(rq[n].rewards))
                 /\ \A r \in {rpc_log[i] : i \in 1..Len(rpc_log)} :
                       r.method = "getBlock" \/ r.method = "getVoteAccounts"
           /\ rq[n].response \in OtherCodes =>
                 /\ pc = "done"
                 /\ result = [tag |-> "Err", kind |-> "BlockFetch",
                              slot |-> rq[n].slot, cause |-> rq[n].response]
                 /\ rpc_log = rq

\* C5 witness: two skipped slots, of either code, then a block
C5_Witness ==
    /\ RankCall
    /\ Len(BlockRequests) = 3
    /\ BlockRequests[1].response = "SlotSkipped"
    /\ BlockRequests[2].response = "LongTermStorageSlotSkipped"
    /\ BlockRequests[3].response = "Ok"
    /\ BlockRequests[3].slot = BlockRequests[1].slot + 2
    /\ epoch_commissions.some

\* C10 as claimed: the map has one key per distinct parsable identity among the
\* block's rewards with reward_type Voting and a commission; a reward whose
\* pubkey does not parse contributes no key.
C10_UnparsableRewardsDropped ==
    LET rq == BlockRequests
        n == Len(rq)
    IN  (RankCall /\ n > 0 /\ rq[n].response = "Ok") =>
           LET rs == IF rq[n].rewards.some THEN rq[n].rewards.v ELSE <<>>
               identities == {rs[i].pubkey : i \in
                                 {j \in 1..Len(rs) : /\ rs[j].reward_type = "Voting"
                                                     /\ rs[j].commission.some}}
           IN  DOMAIN epoch_commissions.v
                  = {Base58[id] : id \in identities \cap DOMAIN Base58}

----------------------------------------------------------------------------
(* Claims about the epoch window and get_validator_status (Spec) *)

StatusCall == op = "get_validator_status"

\* get_validator_status found the validator's account
KnownValidator ==
    /\ StatusCall
    /\ vote_accounts.some
    /\ vote_accounts.v.current \o vote_accounts.v.delinquent # <<>>

StatusAccount == (vote_accounts.v.current \o vote_accounts.v.delinquent)[1]

HasRequest(method) == \E i \in 1..Len(rpc_log) : rpc_log[i].method = method

Finished == pc \in {"done", "panicked"}

FutureEpochError == [tag |-> "Err", kind |-> "FutureEpoch", epoch |-> epoch]

\* C6 as claimed: with target_epoch > epoch_info.epoch the ranking fails with
\* FutureEpoch before any block is requested, and get_validator_status on a
\* known validator fails with FutureEpoch before any block-production or
\* leader-schedule query.
C6_FutureEpochFails ==
    /\ (RankCall /\ epoch > epoch_info.epoch) =>
          /\ ~HasRequest("getBlock")
          /\ Finished => result = FutureEpochError
    /\ (KnownValidator /\ epoch > epoch_info.epoch) =>
          /\ ~HasRequest("getBlockProduction")
          /\ ~HasRequest("getLeaderSchedule")
          /\ Finished => result = FutureEpochError

\* the getBlockProduction request of the call
ProductionRequest ==
    rpc_log[CHOOSE i \in 1..Len(rpc_log) : rpc_log[i].method = "getBlockProduction"]

\* C7: for target_epoch <= epoch_info.epoch the window that is queried has
\* last_slot = min(first_slot + slots_in_epoch, absolute_slot), so last_slot
\* never exceeds absolute_slot; for target_epoch = epoch_info.epoch - 1 with
\* absolute_slot - slot_index >= slots_in_epoch its width is slots_in_epoch.
C7_LastSlotClamped ==
    (StatusCall /\ HasRequest("getBlockProduction") /\ epoch <= epoch_info.epoch) =>
        LET first == ProductionRequest.slot
            last == ProductionRequest.last_slot
            S == epoch_info.slots_in_epoch
        IN  /\ last = (IF first + S <= epoch_info.absolute_slot
                       THEN first + S ELSE epoch_info.absolute_slot)
            /\ last <= epoch_info.absolute_slot
            /\ (/\ epoch + 1 = epoch_info.epoch
                /\ epoch_info.absolute_slot - epoch_info.slot_index >= S)
               => last - first = S

\* C7 witness: the previous epoch, whole, and queried
C7_Witness ==
    /\ StatusCall
    /\ HasRequest("getBlockProduction")
    /\ epoch + 1 = epoch_info.epoch
    /\ epoch_info.absolute_slot - epoch_info.slot_index >= epoch_info.slots_in_epoch
    /\ ProductionRequest.last_slot - ProductionRequest.slot = epoch_info.slots_in_epoch
    /\ ProductionRequest.last_slot < epoch_info.absolute_slot

\* max(0, absolute_slot - slot_index - (epoch - target_epoch) * slots_in_epoch)
SaturatedFirstSlot ==
    LET x == epoch_info.absolute_slot - epoch_info.slot_index
                - (epoch_info.epoch - epoch) * epoch_info.slots_in_epoch
    IN  IF x > 0 THEN x ELSE 0

\* C8 as claimed: for target_epoch <= epoch_info.epoch the first slot never
\* underflows, in get_epoch_commissions and in get_validator_status: it is
\* max(0, absolute_slot - slot_index - (epoch - target_epoch) * slots_in_epoch).
C8_FirstSlotSaturates ==
    /\ (RankCall /\ epoch < epoch_info.epoch) =>
          /\ rpc_log # <<>>
          /\ rpc_log[1].method = "getBlock"
          /\ rpc_log[1].slot = SaturatedFirstSlot
    /\ (/\ KnownValidator
        /\ epoch <= epoch_info.epoch
        /\ StatusAccount.last_vote >= StatusAccount.root_slot) =>
          /\ pc # "panicked"
          /\ locals.first_slot_in_epoch = SaturatedFirstSlot

\* the ValidatorStatus that was returned
StatusReturned == StatusCall /\ pc = "done" /\ result.tag = "Ok" /\ result.value.some

\* C9 as claimed: skip_rate is 0 whenever leader_slots is 0, with the identity
\* absent from the block production or present with leader_slots = 0, and
\* otherwise it is 100 * (leader_slots - blocks_produced) / leader_slots,
\* within 0..=100.
C9_SkipRateZeroWithoutLeaderSlots ==
    StatusReturned =>
        LET st == result.value.v
            rate == st.skip_rate
        IN  /\ rate.kind = "finite"
            /\ st.leader_slots_elapsed = 0 => rate.num = 0
            /\ st.leader_slots_elapsed > 0 =>
                  /\ rate.num * st.leader_slots_elapsed
                        = 100 * saturating_sub(st.leader_slots_elapsed, st.blocks_produced)
                             * rate.den
                  /\ 0 <= rate.num
                  /\ rate.num <= 100 * rate.den


====
